---- MODULE Spec2Model ----
(***************************************************************************)
(* Model of static/js/app.js: the scan workflow of the stock screener      *)
(* front end (startScan, loadAllNewsData, displayAllResults) and the       *)
(* formatting helpers it renders rows with.                                *)
(*                                                                         *)
(* One action is one run of the event loop: a handler runs from the event  *)
(* that resumes it (a click, a settled fetch) up to its next await on the  *)
(* network.  `await response.json()` is folded into the step of the fetch  *)
(* it follows: nothing in app.js can run between the two that reads or     *)
(* writes the state modelled here.                                         *)
(***************************************************************************)
EXTENDS Integers, Sequences, FiniteSets, TLC

(***************************************************************************)
(* Bounds of the model.                                                    *)
(***************************************************************************)
\* pages the backend serves in one scan before it reports has_more = false
MaxPages == 2
\* most stocks the backend returns over the pages of one scan
MaxStocks == 2
\* total_tickers a page reports when it reports a positive one
TotalKnown == 150
\* largest drop percentage, in tenths of a percent, formatDropPct is applied to
MaxPctTenths == 300

(***************************************************************************)
(* Program constants.                                                      *)
(***************************************************************************)
DefaultMinDrop == 20
DefaultMaxDrop == 30
DefaultLookback == 2
batchSize == 100
HalfBar == 50
MediumFrom == 25
HeavyFrom == 28

(***************************************************************************)
(* JavaScript values.  A number, or one of the values arithmetic on a      *)
(* missing field produces; all are records of one shape so that any two    *)
(* can be compared.                                                        *)
(***************************************************************************)
Num(n) == [t |-> "number", v |-> n]
NaN == [t |-> "NaN", v |-> 0]
Infinity == [t |-> "Infinity", v |-> 0]
Undefined == [t |-> "undefined", v |-> 0]
Null == [t |-> "null", v |-> 0]
Str(s) == [t |-> s, v |-> 0]
IsNum(x) == x.t = "number"

\* x || d for a numeric x: NaN and 0 are falsy
OrDefault(x, d) == IF IsNum(x) /\ x.v # 0 THEN x ELSE Num(d)

\* a + b as `totalScanned += data.tickers_scanned` computes it
JsAdd(a, b) == IF IsNum(a) /\ IsNum(b) THEN Num(a.v + b.v) ELSE NaN

\* Math.round((a / b) * k) for integers a >= 0, b > 0: round half up
RoundScaled(a, b, k) == (2 * k * a + b) \div (2 * b)

Min2(a, b) == IF a <= b THEN a ELSE b

\* Math.round((scanned / tickers) * 50): 0 / 0 and anything over a missing
\* value are NaN, a positive number over 0 is Infinity
RoundedShare(scanned, tickers) ==
    IF ~IsNum(scanned) \/ ~IsNum(tickers) THEN NaN
    ELSE IF tickers.v = 0
         THEN (IF scanned.v = 0 THEN NaN ELSE Infinity)
         ELSE Num(RoundScaled(scanned.v, tickers.v, HalfBar))

\* Math.min(k, x): NaN when x is NaN
MathMin(k, x) ==
    IF IsNum(x) THEN Num(Min2(k, x.v))
    ELSE IF x = Infinity THEN Num(k)
    ELSE NaN

\* Math.min(50, Math.round((totalScanned / totalTickers) * 50))
scanProgress(scanned, tickers) ==
    MathMin(HalfBar, RoundedShare(scanned, tickers))

\* scanProgress * 2, the percentage the status text shows
Times2(x) == IF IsNum(x) THEN Num(2 * x.v) ELSE x

(***************************************************************************)
(* Inputs: what the user has entered when the scan control is clicked, and *)
(* what the backend answers.                                               *)
(***************************************************************************)
\* the market checkboxes
Markets == {"us"}
\* parseFloat of the #min-drop and #max-drop fields
MinDropFields == {NaN, Num(0), Num(30)}
MaxDropFields == {NaN, Num(20)}
\* parseInt of the #lookback-days field
LookbackFields == {NaN, Num(0)}
\* tickers of the stocks the backend knows
Tickers == {"A", "B"}

SeqsUpTo(S, n) == UNION {[1..k -> S] : k \in 0..n}

\* a StockSummary as /api/scan returns it: no safety field set yet;
\* drop_pct is in tenths of a percent
StockSummary(tk) ==
    [ticker |-> tk,
     drop_pct |-> IF tk = "A" THEN 249 ELSE 280,
     safety_score |-> Undefined,
     assessment |-> "undefined",
     safety_message |-> "undefined",
     critical_keywords |-> "undefined"]

\* the body of a successful /api/scan response; `present` is false when the
\* body has no stocks member
PageData ==
    [present : BOOLEAN,
     stocks : SeqsUpTo({StockSummary(tk) : tk \in Tickers}, MaxStocks),
     tickers_scanned : {Num(0), Num(batchSize)},
     total_tickers : {Undefined, Num(0), Num(TotalKnown)},
     has_more : BOOLEAN]

\* the body of a successful /api/stock/{ticker}/news response
Analyses ==
    {[safety_score |-> Num(80), assessment |-> "safe", message |-> "ok",
      critical_keywords_found |-> "undefined"],
     [safety_score |-> Undefined, assessment |-> "undefined",
      message |-> "undefined", critical_keywords_found |-> "undefined"]}

\* how the fetch of a page ends: rejected, answered with a non-OK status,
\* answered OK with a body that is not JSON, answered OK with a JSON body
PageOutcomes == {"reject", "notok", "badjson", "ok"}
\* how the fetch of a news analysis ends
NewsOutcomes == {"reject", "notok", "ok"}

(***************************************************************************)
(* Format helpers.                                                         *)
(***************************************************************************)
formatTicker(ticker) == <<"strong", ticker>>

\* the tiers with > for >=
formatDropPctStrict(pct) ==
    IF pct = 0
    THEN [badge |-> FALSE, class |-> "", sign |-> "", whole |-> 0, tenth |-> 0]
    ELSE [badge |-> TRUE,
          class |-> IF pct > HeavyFrom * 10 THEN "drop-heavy"
                    ELSE IF pct > MediumFrom * 10 THEN "drop-medium"
                    ELSE "drop-light",
          sign |-> "-",
          whole |-> pct \div 10,
          tenth |-> pct % 10]

\* pct in tenths of a percent; toFixed(1) prints the whole part and one
\* decimal.  The placeholder '-' is the record with badge = FALSE.
formatDropPct(pct) ==
    IF pct = 0
    THEN [badge |-> FALSE, class |-> "", sign |-> "", whole |-> 0, tenth |-> 0]
    ELSE [badge |-> TRUE,
          class |-> IF pct >= HeavyFrom * 10 THEN "drop-heavy"
                    ELSE IF pct >= MediumFrom * 10 THEN "drop-medium"
                    ELSE "drop-light",
          sign |-> "-",
          whole |-> pct \div 10,
          tenth |-> pct % 10]

formatSafetyBadge(score, assessment, message) ==
    LET known == assessment \in {"safe", "caution", "avoid", "unknown"}
        icon == IF ~known THEN "?"
                ELSE CASE assessment = "safe" -> "check"
                       [] assessment = "caution" -> "warn"
                       [] assessment = "avoid" -> "cross"
                       [] OTHER -> "?"
        color == IF ~known THEN "secondary"
                 ELSE CASE assessment = "safe" -> "success"
                        [] assessment = "caution" -> "warning"
                        [] assessment = "avoid" -> "danger"
                        [] OTHER -> "secondary"
        title == IF message \in {"undefined", ""} THEN "" ELSE message
    IN  [color |-> color, title |-> title, icon |-> icon, score |-> score]

\* the row displayAllResults adds for one stock (the name, sector and price
\* columns are not modelled)
RowOf(stock) ==
    [ticker |-> formatTicker(stock.ticker),
     drop |-> formatDropPct(stock.drop_pct),
     safety |-> formatSafetyBadge(stock.safety_score, stock.assessment,
                                  stock.safety_message)]

\* the loop over the stocks stopping one short
displayAllButLast(stocks) ==
    [rows |-> [i \in 1..(Len(stocks) - 1) |-> RowOf(stocks[i])],
     stocks |-> stocks]

\* displayAllResults(stocks): the rows of the table after the call, and the
\* stocks array as the call leaves it
displayAllResults(stocks) ==
    [rows |-> [i \in 1..Len(stocks) |-> RowOf(stocks[i])],
     stocks |-> stocks]

(***************************************************************************)
(* Pieces of startScan and loadAllNewsData.                                *)
(***************************************************************************)
\* markets.length === 0
NoMarkets(m) == Cardinality(m) = 0

\* the range check with > for >=
RangeInvalidStrict(minD, maxD) == minD.v > maxD.v

\* minDrop >= maxDrop
RangeInvalid(minD, maxD) == minD.v >= maxD.v

\* the scan without `currentResults = []`
KeptResults(old) == old

\* currentResults = []
ClearedResults(old) == <<>>

\* the page assigned where it is to be concatenated
AccumulateLastPage(results, data) ==
    IF data.present /\ Len(data.stocks) > 0 THEN data.stocks ELSE results

\* if (data.stocks && data.stocks.length > 0)
\*     currentResults = currentResults.concat(data.stocks)
Accumulate(results, data) ==
    IF data.present /\ Len(data.stocks) > 0
    THEN results \o data.stocks
    ELSE results

\* the loop without batch++
SameBatch(b) == b

\* batch++
NextBatch(b) == b + 1

\* error.message of what the try block of startScan catches
ErrorMessage(outcome) ==
    CASE outcome = "notok" -> Str("HTTP error! status")
      [] outcome = "reject" -> Str("Failed to fetch")
      [] OTHER -> Str("Unexpected token")

PostReq(b) == [kind |-> "POST", n |-> b, ticker |-> ""]
GetReq(i, tk) == [kind |-> "GET", n |-> i, ticker |-> tk]

\* all the fetches issued at once, before the first is awaited
AllNewsFetches(stocks, done) ==
    IF done = 0
    THEN [i \in 1..Len(stocks) |-> GetReq(i, stocks[i].ticker)]
    ELSE <<>>

\* the fetches loadAllNewsData issues when it has handled `done` stocks:
\* the one for the next stock
NewsFetches(stocks, done) ==
    IF done < Len(stocks)
    THEN <<GetReq(done + 1, stocks[done + 1].ticker)>>
    ELSE <<>>

\* response.ok: the fields of the analysis, with their defaults
EnrichSuccess(stock, analysis) ==
    [stock EXCEPT
       !.safety_score = analysis.safety_score,
       !.assessment = IF analysis.assessment \in {"undefined", ""}
                      THEN "unknown" ELSE analysis.assessment,
       !.safety_message = IF analysis.message = "undefined"
                          THEN "" ELSE analysis.message,
       !.critical_keywords =
           IF analysis.critical_keywords_found = "undefined"
           THEN "[]" ELSE analysis.critical_keywords_found]

\* the non-OK branch with the message of the catch block
EnrichHttpFailureAsError(stock) ==
    [stock EXCEPT !.safety_score = Null,
                  !.assessment = "unknown",
                  !.safety_message = "Error loading"]

\* !response.ok
EnrichHttpFailure(stock) ==
    [stock EXCEPT !.safety_score = Null,
                  !.assessment = "unknown",
                  !.safety_message = "Unable to load"]

\* catch (error)
EnrichTransportError(stock) ==
    [stock EXCEPT !.safety_score = Null,
                  !.assessment = "unknown",
                  !.safety_message = "Error loading"]

RangeOf(seq) == {seq[i] : i \in 1..Len(seq)}

(***************************************************************************)
(* State.                                                                  *)
(***************************************************************************)
VARIABLES
    \* module state
    currentResults,  \* let currentResults
    table,           \* the rows of dataTable, in the order they were added
    \* the page
    btnDisabled,     \* #scan-btn disabled
    scanText,        \* #scan-text
    spinnerHidden,   \* #scan-spinner has class d-none
    statusClass,     \* classes of #status-bar
    statusText,      \* #status-text
    resultsCount,    \* #results-count
    alertShown,      \* the alert() of the latest startScan call, or "none"
    \* locals of the running startScan; as in Init when none is running
    staleDropped,    \* `currentResults = []` dropped stocks of an earlier scan
    markets, minDrop, maxDrop, lookbackDays,
    batch, hasMore, totalScanned, totalTickers, progress,
    loaded,          \* loadAllNewsData: let loaded
    pc,              \* where startScan is suspended: idle when it is not
    \* the network
    outstanding,     \* fetches issued and not yet settled
    \* history of the latest scan that passed validation
    posted,          \* batch numbers of the POST /api/scan requests, in order
    pagesFetched,    \* has_more of the pages received, in order
    stocksReturned,  \* the numbers of stocks of the pages received, added up
    fetchedStocks,   \* the stocks of the pages received, in order
    newsReqs,        \* the GET .../news requests, in order
    newsOutcomes,    \* how each of them ended, in order
    displayCalls,    \* calls of displayAllResults
    enriched,        \* the stocks handed to displayAllResults
    phase1Failed,    \* a POST /api/scan of this scan failed
    \* formatDropPct on its own
    fmtPct, fmtOut

vars ==
    <<currentResults, table, btnDisabled, scanText, spinnerHidden, statusClass,
      statusText, resultsCount, alertShown, markets, minDrop, maxDrop,
      lookbackDays, batch, hasMore, totalScanned, totalTickers, progress,
      loaded, pc, outstanding, posted, pagesFetched, stocksReturned,
      staleDropped, fetchedStocks, newsReqs, newsOutcomes,
      displayCalls, enriched, phase1Failed, fmtPct, fmtOut>>

pageVars == <<btnDisabled, scanText, spinnerHidden, statusClass, statusText,
              resultsCount>>
localVars == <<staleDropped, markets, minDrop, maxDrop, lookbackDays, batch, hasMore,
               totalScanned, totalTickers, progress, loaded>>
histVars == <<posted, pagesFetched, stocksReturned, fetchedStocks, newsReqs,
              newsOutcomes, displayCalls, enriched, phase1Failed>>
fmtVars == <<fmtPct, fmtOut>>

Text(msg, args) == [msg |-> msg, args |-> args]

\* the page as index.html serves it, the module state as app.js sets it,
\* and the table as initDataTable leaves it
NoLocals ==
    [staleDropped |-> FALSE, markets |-> {}, minDrop |-> Undefined, maxDrop |-> Undefined,
     lookbackDays |-> Undefined, batch |-> 0, hasMore |-> FALSE,
     totalScanned |-> Undefined, totalTickers |-> Undefined,
     progress |-> Undefined, loaded |-> 0]

InitMain ==
    /\ currentResults = <<>>
    /\ table = <<>>
    /\ btnDisabled = FALSE
    /\ scanText = "Start Scan"
    /\ spinnerHidden = TRUE
    /\ statusClass = {"d-none"}
    /\ statusText = Text("", <<>>)
    /\ resultsCount = Text("", <<>>)
    /\ alertShown = "none"
    /\ markets = NoLocals.markets
    /\ minDrop = NoLocals.minDrop
    /\ maxDrop = NoLocals.maxDrop
    /\ lookbackDays = NoLocals.lookbackDays
    /\ batch = NoLocals.batch
    /\ hasMore = NoLocals.hasMore
    /\ totalScanned = NoLocals.totalScanned
    /\ totalTickers = NoLocals.totalTickers
    /\ progress = NoLocals.progress
    /\ loaded = NoLocals.loaded
    /\ pc = "idle"
    /\ outstanding = {}
    /\ posted = <<>>
    /\ pagesFetched = <<>>
    /\ staleDropped = NoLocals.staleDropped
    /\ stocksReturned = 0
    /\ fetchedStocks = <<>>
    /\ newsReqs = <<>>
    /\ newsOutcomes = <<>>
    /\ displayCalls = 0
    /\ enriched = <<>>
    /\ phase1Failed = FALSE

Init ==
    /\ InitMain
    /\ fmtPct = 0
    /\ fmtOut = <<>>

\* the return without the finally block: the control stays as it is
ReturnWithoutFinally ==
    /\ UNCHANGED <<btnDisabled, scanText, spinnerHidden>>
    /\ staleDropped' = NoLocals.staleDropped
    /\ markets' = NoLocals.markets
    /\ minDrop' = NoLocals.minDrop
    /\ maxDrop' = NoLocals.maxDrop
    /\ lookbackDays' = NoLocals.lookbackDays
    /\ batch' = NoLocals.batch
    /\ hasMore' = NoLocals.hasMore
    /\ totalScanned' = NoLocals.totalScanned
    /\ totalTickers' = NoLocals.totalTickers
    /\ progress' = NoLocals.progress
    /\ loaded' = NoLocals.loaded
    /\ pc' = "idle"

\* finally { ... }, and startScan returns: its locals are gone
Finally ==
    /\ btnDisabled' = FALSE
    /\ scanText' = "Start Scan"
    /\ spinnerHidden' = TRUE
    /\ staleDropped' = NoLocals.staleDropped
    /\ markets' = NoLocals.markets
    /\ minDrop' = NoLocals.minDrop
    /\ maxDrop' = NoLocals.maxDrop
    /\ lookbackDays' = NoLocals.lookbackDays
    /\ batch' = NoLocals.batch
    /\ hasMore' = NoLocals.hasMore
    /\ totalScanned' = NoLocals.totalScanned
    /\ totalTickers' = NoLocals.totalTickers
    /\ progress' = NoLocals.progress
    /\ loaded' = NoLocals.loaded
    /\ pc' = "idle"

(***************************************************************************)
(* startScan, from the click on the scan control to its first await.  The  *)
(* inputs are what the checkboxes and the three fields hold at the click.  *)
(***************************************************************************)
StartScanWith(m, minF, maxF, lbF) ==
    LET minD == OrDefault(minF, DefaultMinDrop)
        maxD == OrDefault(maxF, DefaultMaxDrop)
        lbD == OrDefault(lbF, DefaultLookback)
    IN
    /\ pc = "idle"
    /\ IF NoMarkets(m)
       THEN /\ alertShown' = "Please select at least one market to scan."
            /\ UNCHANGED <<currentResults, table, pageVars, localVars, pc,
                           outstanding, histVars, fmtVars>>
       ELSE IF RangeInvalid(minD, maxD)
       THEN /\ alertShown' = "Min drop must be less than max drop."
            /\ UNCHANGED <<currentResults, table, pageVars, localVars, pc,
                           outstanding, histVars, fmtVars>>
       ELSE /\ alertShown' = "none"
            \* loading state
            /\ btnDisabled' = TRUE
            /\ scanText' = "Scanning..."
            /\ spinnerHidden' = FALSE
            /\ statusClass' = ((statusClass \ {"d-none"}) \cup {"alert-info"})
                                \ {"alert-success", "alert-danger"}
            /\ statusText' = Text("Scanning market(s)", <<Num(Cardinality(m))>>)
            \* clear previous results
            /\ currentResults' = ClearedResults(currentResults)
            /\ table' = <<>>
            /\ resultsCount' = Text("Scanning...", <<>>)
            /\ markets' = m
            /\ minDrop' = minD
            /\ maxDrop' = maxD
            /\ lookbackDays' = lbD
            /\ batch' = 0
            /\ hasMore' = TRUE
            /\ totalScanned' = Num(0)
            /\ totalTickers' = Num(0)
            /\ progress' = Undefined
            /\ loaded' = 0
            \* while (hasMore): the first fetch
            /\ outstanding' = outstanding \cup {PostReq(0)}
            /\ posted' = <<0>>
            /\ pagesFetched' = <<>>
            /\ staleDropped' = (Len(currentResults) > 0)
            /\ stocksReturned' = 0
            /\ fetchedStocks' = <<>>
            /\ newsReqs' = <<>>
            /\ newsOutcomes' = <<>>
            /\ displayCalls' = 0
            /\ enriched' = <<>>
            /\ phase1Failed' = FALSE
            /\ pc' = "awaitPage"
            /\ UNCHANGED fmtVars

StartScan ==
    \E m \in SUBSET Markets, minF \in MinDropFields, maxF \in MaxDropFields,
       lbF \in LookbackFields :
        StartScanWith(m, minF, maxF, lbF)

(***************************************************************************)
(* startScan resumed by the fetch of a page: the rest of the loop body,    *)
(* and either the next fetch, or the end of phase 1 up to the first fetch  *)
(* of loadAllNewsData, or the end of the scan.                             *)
(***************************************************************************)
PageReceived(r, data) ==
    LET tt == data.total_tickers
        ts == JsAdd(totalScanned, data.tickers_scanned)
        cr == Accumulate(currentResults, data)
        sp == scanProgress(ts, tt)
        b == NextBatch(batch)
        news == NewsFetches(cr, 0)
    IN
    \* what the backend may answer: it ends the scan at its last page, and
    \* returns at most MaxStocks stocks over the scan
    /\ data.has_more => batch + 1 < MaxPages
    /\ ~data.present => data.stocks = <<>>
    /\ Len(fetchedStocks) + Len(data.stocks) <= MaxStocks
    /\ currentResults' = cr
    /\ pagesFetched' = Append(pagesFetched, data.has_more)
    /\ stocksReturned' = stocksReturned + Len(data.stocks)
    /\ fetchedStocks' = fetchedStocks \o data.stocks
    /\ UNCHANGED <<table, alertShown, displayCalls, enriched, newsOutcomes,
                   fmtVars>>
    /\ IF data.has_more
       THEN \* the next page
            /\ totalTickers' = tt
            /\ totalScanned' = ts
            /\ hasMore' = data.has_more
            /\ progress' = sp
            /\ batch' = b
            /\ statusText' = Text("Scanning stocks... % (/)", <<Times2(sp), ts, tt>>)
            /\ outstanding' = (outstanding \ {r}) \cup {PostReq(b)}
            /\ posted' = Append(posted, b)
            /\ pc' = "awaitPage"
            /\ UNCHANGED <<btnDisabled, scanText, spinnerHidden, statusClass,
                           resultsCount, staleDropped, markets, minDrop,
                           maxDrop, lookbackDays, loaded, newsReqs>>
       ELSE IF Len(cr) = 0
       THEN \* no stock found
            /\ statusClass' = (statusClass \ {"alert-info"}) \cup {"alert-warning"}
            /\ statusText' = Text("No stocks found", <<minDrop, maxDrop, lookbackDays, tt>>)
            /\ resultsCount' = Text("0 stocks found", <<>>)
            /\ Finally
            /\ outstanding' = outstanding \ {r}
            /\ UNCHANGED <<posted, newsReqs>>
       ELSE \* phase 2: loadAllNewsData(currentResults), to its first fetch
            /\ totalTickers' = tt
            /\ totalScanned' = ts
            /\ hasMore' = data.has_more
            /\ progress' = sp
            /\ batch' = b
            /\ statusText' = Text("Loading safety analysis for stocks...", <<Num(Len(cr))>>)
            /\ loaded' = 0
            /\ outstanding' = (outstanding \ {r}) \cup RangeOf(news)
            /\ newsReqs' = newsReqs \o news
            /\ pc' = "awaitNews"
            /\ UNCHANGED <<btnDisabled, scanText, spinnerHidden, statusClass,
                           resultsCount, staleDropped, markets, minDrop,
                           maxDrop, lookbackDays, posted>>

\* the failure not noticed (no `if (!response.ok) throw`): the error body
\* is read as a page without stocks and without has_more
PageFailedUnnoticed(r, outcome) ==
    PageReceived(r, [present |-> FALSE, stocks |-> <<>>,
                     tickers_scanned |-> Num(0), total_tickers |-> Undefined,
                     has_more |-> FALSE])

\* the fetch rejected, or the response not OK, or its body not JSON: the
\* catch block
PageFailed(r, outcome) ==
    /\ outstanding' = outstanding \ {r}
    \* catch (error)
    /\ statusClass' = (statusClass \ {"alert-info"}) \cup {"alert-danger"}
    /\ statusText' = Text("Error during scan: ", <<ErrorMessage(outcome)>>)
    /\ Finally
    /\ UNCHANGED <<currentResults, table, resultsCount, alertShown, posted,
                   pagesFetched, stocksReturned, fetchedStocks, newsReqs,
                   newsOutcomes, displayCalls, enriched, fmtVars>>

PageResponse ==
    /\ pc = "awaitPage"
    /\ PostReq(batch) \in outstanding
    /\ \/ /\ \E outcome \in PageOutcomes \ {"ok"} :
                  PageFailed(PostReq(batch), outcome)
          /\ phase1Failed' = TRUE
       \/ /\ \E data \in PageData : PageReceived(PostReq(batch), data)
          /\ UNCHANGED phase1Failed

(***************************************************************************)
(* loadAllNewsData resumed by the fetch for the stock after the `loaded`   *)
(* handled ones: the rest of the loop body, and either the next fetch or,  *)
(* back in startScan, phase 3 and the end of the scan.                     *)
(***************************************************************************)
Enriched(stock, outcome, analysis) ==
    CASE outcome = "ok" -> EnrichSuccess(stock, analysis)
      [] outcome = "notok" -> EnrichHttpFailure(stock)
      [] OTHER -> EnrichTransportError(stock)

NewsSettled(r, outcome, analysis) ==
    LET i == loaded + 1
        cr == [currentResults EXCEPT ![i] = Enriched(currentResults[i], outcome, analysis)]
        total == Len(cr)
        news == NewsFetches(cr, i)
        shown == displayAllResults(cr)
    IN
    /\ newsOutcomes' = Append(newsOutcomes, outcome)
    /\ UNCHANGED <<alertShown, posted, pagesFetched, stocksReturned,
                   fetchedStocks, phase1Failed, fmtVars>>
    /\ IF i < total
       THEN \* the next stock
            /\ currentResults' = cr
            /\ loaded' = i
            /\ statusText' = Text("Loading safety analysis... % (/)",
                                  <<Num(RoundScaled(i, total, 100)), Num(i), Num(total)>>)
            /\ outstanding' = (outstanding \ {r}) \cup RangeOf(news)
            /\ newsReqs' = newsReqs \o news
            /\ pc' = "awaitNews"
            /\ UNCHANGED <<table, btnDisabled, scanText, spinnerHidden,
                           statusClass, resultsCount, displayCalls, enriched,
                           staleDropped, markets, minDrop, maxDrop, lookbackDays, batch,
                           hasMore, totalScanned, totalTickers, progress>>
       ELSE \* phase 3: displayAllResults(currentResults), and the final update
            /\ enriched' = cr
            /\ table' = shown.rows
            /\ currentResults' = shown.stocks
            /\ displayCalls' = displayCalls + 1
            /\ statusClass' = (statusClass \ {"alert-info"}) \cup {"alert-success"}
            /\ statusText' = Text("Complete! Found stocks",
                                  <<Num(Len(shown.stocks)), minDrop, maxDrop,
                                    lookbackDays, totalTickers>>)
            /\ resultsCount' = Text("stocks found", <<Num(Len(shown.stocks))>>)
            /\ Finally
            /\ outstanding' = outstanding \ {r}
            /\ UNCHANGED newsReqs

NewsResponse ==
    /\ pc = "awaitNews"
    /\ loaded < Len(currentResults)
    /\ LET r == GetReq(loaded + 1, currentResults[loaded + 1].ticker)
       IN /\ r \in outstanding
          /\ \/ \E outcome \in NewsOutcomes \ {"ok"} :
                   NewsSettled(r, outcome, CHOOSE a \in Analyses : TRUE)
             \/ \E analysis \in Analyses : NewsSettled(r, "ok", analysis)

Next ==
    \/ StartScan
    \/ PageResponse
    \/ NewsResponse

Spec == Init /\ [][Next]_vars

(***************************************************************************)
(* formatDropPct on its own: applied to every percentage of a bounded set. *)
(***************************************************************************)
DropPcts == 0..MaxPctTenths

InitFmt ==
    /\ InitMain
    /\ fmtPct \in DropPcts
    /\ fmtOut = <<>>

FormatDrop ==
    /\ fmtOut = <<>>
    /\ fmtOut' = <<formatDropPct(fmtPct)>>
    /\ UNCHANGED <<fmtPct, currentResults, table, pageVars, alertShown,
                   localVars, pc, outstanding, histVars>>

NextFmt == FormatDrop

SpecFmt == InitFmt /\ [][NextFmt]_vars

(***************************************************************************)
(* Properties of the scan.                                                 *)
(***************************************************************************)

\* C1: a call of startScan with no market selected or with
\* minDrop >= maxDrop issues no request (no POST /api/scan, no GET
\* .../news) and shows a validation alert before it returns.
C1_RejectedCallSendsNothing ==
    [][\A m \in SUBSET Markets, minF \in MinDropFields,
          maxF \in MaxDropFields, lbF \in LookbackFields :
          (/\ \/ m = {}
              \/ OrDefault(minF, DefaultMinDrop).v
                   >= OrDefault(maxF, DefaultMaxDrop).v
           /\ StartScanWith(m, minF, maxF, lbF))
          => /\ outstanding' = outstanding
             /\ posted' = posted
             /\ newsReqs' = newsReqs
             /\ alertShown' # "none"
             /\ pc' = "idle"]_vars

\* a call was rejected for its range and nothing is in flight
C1_Witness ==
    /\ alertShown = "Min drop must be less than max drop."
    /\ pc = "idle"
    /\ outstanding = {}

\* C2: a scan that passed validation has issued at least one POST
\* /api/scan; the batch numbers of its requests are 0, 1, 2, ...; after
\* every page with has_more a further page has been requested, and none
\* after the first page without.
C2_PagesUntilNoMore ==
    /\ pc # "idle" => Len(posted) >= 1
    /\ \A i \in 1..Len(posted) : posted[i] = i - 1
    /\ \A i \in 1..Len(pagesFetched) :
          /\ i <= Len(posted)
          /\ pagesFetched[i] => Len(posted) > i
          /\ ~pagesFetched[i] => Len(posted) = i

\* two pages were requested and the second ended the scan
C2_Witness ==
    /\ posted = <<0, 1>>
    /\ pagesFetched = <<TRUE, FALSE>>

\* phase 1 of the latest scan has ended without error
Phase1Done ==
    /\ ~phase1Failed
    /\ pagesFetched # <<>>
    /\ ~pagesFetched[Len(pagesFetched)]

\* C3: when phase 1 has ended without error, currentResults holds as many
\* stocks as the pages of this scan returned in all, and they are the
\* stocks of the pages in page order.
C3_AccumulatedIsSumOfPages ==
    Phase1Done =>
        /\ Len(currentResults) = stocksReturned
        /\ Len(currentResults) = Len(fetchedStocks)
        /\ \A i \in 1..Len(currentResults) :
              /\ currentResults[i].ticker = fetchedStocks[i].ticker
              /\ currentResults[i].drop_pct = fetchedStocks[i].drop_pct

\* two pages with two stocks between them have been accumulated
C3_Witness ==
    /\ Phase1Done
    /\ pc = "awaitNews"
    /\ Len(pagesFetched) = 2
    /\ stocksReturned = 2
    /\ currentResults[1].ticker = "B"
    /\ currentResults[2].ticker = "A"

\* C4: loadAllNewsData issues exactly one GET .../news per accumulated
\* stock, in order, whatever the other requests did; a non-OK response
\* leaves the stock with assessment unknown, score null and message
\* 'Unable to load', a transport error with assessment unknown, score null
\* and message 'Error loading'; after a failure the next stock is still
\* requested, and the scan goes on to display the results.
C4_EnrichmentFailuresAreIsolated ==
    /\ Len(newsReqs) <= Len(currentResults)
    /\ \A i \in 1..Len(newsReqs) :
          newsReqs[i] = GetReq(i, currentResults[i].ticker)
    /\ Len(newsOutcomes) <= Len(newsReqs)
    /\ \A i \in 1..Len(newsOutcomes) :
          /\ newsOutcomes[i] = "notok" =>
                /\ currentResults[i].assessment = "unknown"
                /\ currentResults[i].safety_score = Null
                /\ currentResults[i].safety_message = "Unable to load"
          /\ newsOutcomes[i] = "reject" =>
                /\ currentResults[i].assessment = "unknown"
                /\ currentResults[i].safety_score = Null
                /\ currentResults[i].safety_message = "Error loading"
    /\ pc = "awaitNews" =>
          /\ Len(newsReqs) = Len(newsOutcomes) + 1
          /\ newsReqs[Len(newsReqs)] \in outstanding
    /\ (pc = "idle" /\ newsReqs # <<>>) =>
          /\ Len(newsReqs) = Len(currentResults)
          /\ Len(newsOutcomes) = Len(currentResults)
          /\ displayCalls = 1
          /\ "alert-danger" \notin statusClass

\* the request for the first stock got a non-OK response, the one for the
\* second was rejected, and the scan completed
C4_Witness ==
    /\ pc = "idle"
    /\ newsOutcomes = <<"notok", "reject">>
    /\ Len(newsReqs) = 2
    /\ currentResults[1].safety_message = "Unable to load"
    /\ currentResults[2].safety_message = "Error loading"
    /\ displayCalls = 1

\* C5: once a POST /api/scan of a scan has failed, the scan is over: no
\* further page and no news analysis is requested, displayAllResults is not
\* called and the table stays empty, and the status bar shows the error.
C5_FailedPageAbortsScan ==
    phase1Failed =>
        /\ pc = "idle"
        /\ outstanding = {}
        /\ Len(posted) = Len(pagesFetched) + 1
        /\ newsReqs = <<>>
        /\ displayCalls = 0
        /\ table = <<>>
        /\ "alert-danger" \in statusClass
        /\ statusText.msg = "Error during scan: "

\* the second page failed after the first had returned a stock
C5_Witness ==
    /\ phase1Failed
    /\ Len(pagesFetched) = 1
    /\ Len(currentResults) = 1
    /\ table = <<>>

\* C6: the phase-1 progress is a number in 0..50, shown as 0..100, and it
\* is 0 when the page reports total_tickers = 0 or does not report it.
C6_ProgressIsPercentage ==
    (pc # "idle" /\ pagesFetched # <<>>) =>
        /\ IsNum(progress)
        /\ progress.v \in 0..50
        /\ totalTickers \in {Num(0), Undefined} => progress = Num(0)
        /\ pc = "awaitPage" =>
              /\ IsNum(statusText.args[1])
              /\ statusText.args[1].v \in 0..100

\* C7: from the first page request of a scan on, currentResults and the
\* table hold only stocks that pages of this scan returned, none of an
\* earlier scan; both are empty when the first page is requested.
C7_NoStaleResults ==
    /\ \A i \in 1..Len(currentResults) :
          \E j \in 1..Len(fetchedStocks) :
              /\ currentResults[i].ticker = fetchedStocks[j].ticker
              /\ currentResults[i].drop_pct = fetchedStocks[j].drop_pct
    /\ \A i \in 1..Len(table) :
          \E j \in 1..Len(fetchedStocks) :
              table[i].ticker = formatTicker(fetchedStocks[j].ticker)
    /\ (pc = "awaitPage" /\ pagesFetched = <<>>) =>
          /\ currentResults = <<>>
          /\ table = <<>>
    /\ Len(currentResults) <= Len(fetchedStocks)

\* a scan that started over the results of an earlier one has requested
\* its first page
C7_Witness ==
    /\ staleDropped
    /\ pc = "awaitPage"
    /\ posted = <<0>>
    /\ pagesFetched = <<>>

\* C8: the scan has at most one fetch outstanding: the POST for batch b
\* only when the b pages before it have been received and no news analysis
\* has been requested, the GET for the i-th stock only when the last page
\* has been received and the i-1 requests before it have ended.
C8_OneRequestAtATime ==
    /\ Cardinality(outstanding) <= 1
    /\ \A r \in outstanding :
          /\ r.kind = "POST" =>
                /\ pc = "awaitPage"
                /\ r.n = Len(pagesFetched)
                /\ newsReqs = <<>>
          /\ r.kind = "GET" =>
                /\ pc = "awaitNews"
                /\ Phase1Done
                /\ Len(posted) = Len(pagesFetched)
                /\ r.n = Len(newsOutcomes) + 1
                /\ r.ticker = fetchedStocks[r.n].ticker
    /\ pc # "idle" => Cardinality(outstanding) = 1

\* the analysis of the second stock is being fetched after the request
\* for the first was rejected
C8_Witness ==
    /\ newsOutcomes = <<"reject">>
    /\ outstanding = {GetReq(2, "B")}

\* C9: displayAllResults is called at most once in a scan, and exactly
\* once in a scan that found a stock and lost no page; when it has been
\* called every request for a news analysis has ended, every stock has an
\* assessment, the table has one row per stock, in order, and the stocks
\* are as they were handed over.
C9_DisplayedOnceWhenEnriched ==
    /\ displayCalls <= 1
    /\ pc # "idle" => (displayCalls = 0 /\ table = <<>>)
    /\ (pc = "idle" /\ Phase1Done /\ fetchedStocks # <<>>) => displayCalls = 1
    /\ displayCalls = 1 =>
          /\ Len(newsOutcomes) = Len(currentResults)
          /\ \A i \in 1..Len(currentResults) :
                currentResults[i].assessment \in
                    {"safe", "caution", "avoid", "unknown"}
          /\ Len(table) = Len(currentResults)
          /\ \A i \in 1..Len(currentResults) :
                table[i].ticker = formatTicker(currentResults[i].ticker)
          /\ currentResults = enriched

\* a scan of two stocks has been displayed
C9_Witness ==
    /\ displayCalls = 1
    /\ Len(table) = 2
    /\ currentResults[1].assessment = "safe"
    /\ currentResults[2].assessment = "unknown"

(***************************************************************************)
(* Properties of formatDropPct, under SpecFmt.                             *)
(***************************************************************************)
\* the badge of tenths p with the tier the thresholds 25 and 28 give it
TierOf(p) ==
    IF p < 250 THEN "drop-light"
    ELSE IF p < 280 THEN "drop-medium"
    ELSE "drop-heavy"

\* C10 as stated: for every percentage, formatDropPct gives a badge with a
\* leading minus sign, of class light below 25, medium from 25 to below
\* 28, heavy from 28.
C10_EveryPctIsABadge ==
    fmtOut # <<>> =>
        /\ fmtOut[1].badge
        /\ fmtOut[1].sign = "-"
        /\ fmtOut[1].class = TierOf(fmtPct)

\* C10 amended: the same for every percentage other than 0, with the
\* percentage printed to one decimal; for 0 the result is the placeholder
\* '-' and no badge.
C10_NonZeroPctIsABadge ==
    fmtOut # <<>> =>
        IF fmtPct = 0
        THEN ~fmtOut[1].badge
        ELSE /\ fmtOut[1].badge
             /\ fmtOut[1].sign = "-"
             /\ fmtOut[1].class = TierOf(fmtPct)
             /\ fmtOut[1].whole * 10 + fmtOut[1].tenth = fmtPct
             /\ fmtOut[1].tenth \in 0..9

\* 25.0 has been formatted, as a medium badge
C10_Witness ==
    /\ fmtPct = 250
    /\ fmtOut # <<>>
    /\ fmtOut[1].class = "drop-medium"

(***************************************************************************)
(* The scan control, under Spec.                                           *)
(***************************************************************************)
\* C11: the scan control is disabled, and the spinner shown, exactly while
\* a scan is running: not after a call that validation rejected, from the
\* first page request on in a scan that passed, and no longer once the
\* scan has ended, whether with results, with no stock found or with a
\* failed page; a scan whose phase 1 found no stock ends without a request
\* for a news analysis and without a call of displayAllResults.
C11_ControlDisabledWhileScanning ==
    /\ btnDisabled <=> pc # "idle"
    /\ spinnerHidden <=> pc = "idle"
    /\ scanText = (IF pc = "idle" THEN "Start Scan" ELSE "Scanning...")
    /\ alertShown # "none" => (pc = "idle" /\ ~btnDisabled)
    /\ (pc = "awaitPage" /\ pagesFetched = <<>>) => btnDisabled
    /\ (displayCalls = 1 \/ phase1Failed) => (~btnDisabled /\ spinnerHidden)
    /\ (pc = "idle" /\ Phase1Done /\ fetchedStocks = <<>>) =>
          /\ ~btnDisabled
          /\ spinnerHidden
          /\ newsReqs = <<>>
          /\ newsOutcomes = <<>>
          /\ displayCalls = 0
          /\ table = <<>>
          /\ "alert-warning" \in statusClass
          /\ resultsCount.msg = "0 stocks found"

\* a scan of two pages has ended with no stock found
C11_Witness ==
    /\ pc = "idle"
    /\ Phase1Done
    /\ Len(pagesFetched) = 2
    /\ fetchedStocks = <<>>
    /\ ~btnDisabled
    /\ spinnerHidden
    /\ statusText.msg = "No stocks found"

====
